---- MODULE Spec2Model ----
(***************************************************************************)
(* GitHub trend analyzer: the H-Index calculator (utils calculateHIndex),  *)
(* the two ranked fetch strategies of services/githubService.js and the    *)
(* trend aggregator of services/trendTrackerService.js.                    *)
(*                                                                         *)
(* Nine specifications share the module:                                  *)
(*   SpecH        calculateHIndex applied to bounded inputs                *)
(*   Spec         one call of fetchAndCalculateHIndex against an upstream  *)
(*   SpecTrend    one call of compareSearchTerms                           *)
(*   SpecCompare  one call of processSearchTermForHIndex                   *)
(*   SpecWindows  one call of generateTimeWindows                          *)
(*   SpecBoth     fetchAndCalculateHIndex without, then with a token       *)
(*   SpecLive     the GraphQL loop, a request and its response as two steps*)
(*   SpecTrendSteps  compareSearchTerms, request and response as two steps *)
(*   SpecApp      handleSearch of the component, several calls at once     *)
(* Each specification leaves the variables of the others at their initial  *)
(* value.                                                                  *)
(***************************************************************************)
EXTENDS Integers, Sequences, FiniteSets, TLC

VARIABLES
    \* ---- calculateHIndex applied as a pure function (SpecH)
    items,        \* the argument `repos` of the call
    hProperty,    \* the argument `property`
    hOut,         \* <<the value returned>>, empty before the call
    \* ---- one call of fetchAndCalculateHIndex (Spec)
    upstream,     \* the upstream match list, in the order it is delivered
    githubToken,  \* TRUE when a token was passed
    property,     \* 'stargazers_count' or 'forks_count'
    pc,           \* "idle", "rest", "graphql", "returned", "failed"
    rest,         \* locals of fetchAndCalculateHIndexREST
    gql,          \* locals of fetchAndCalculateHIndexGraphQL
    requests,     \* the upstream requests issued so far, oldest first
    result,       \* the object returned, NoResult until then
    \* ---- one call of compareSearchTerms (SpecTrend)
    searchTerms,  \* the argument `searchTerms`
    timeWindows,  \* the argument `timeWindows`
    metric,       \* the argument `metric`
    trendToken,   \* TRUE when a token was passed
    termIdx,      \* position of the for..of loop in searchTerms
    results,      \* the `results` object: term -> entry, NoEntry when absent
    trendLog,     \* the upstream requests issued so far, oldest first
    trendPc,      \* "loop", "returned"
    \* ---- one call of processSearchTermForHIndex (SpecCompare); the ranked
    \* fetch in progress is held by the variables of fetchAndCalculateHIndex
    matches,      \* the repositories matching the term, in best-match order
    cmpPc,        \* "off", "star", "fork", "counts", "returned", "failed"
    starResult,   \* the const starResult, NoResult until assigned
    forkResult,   \* the const forkResult, NoResult until assigned
    mergedRepos,  \* the const allRepos, empty until assigned
    counts,       \* the three getTotalCount calls: item type -> call state
    cmpLog,       \* the upstream requests of the completed awaits, oldest first
    cmpResult,    \* the object returned, NoResult until then
    \* ---- one call of generateTimeWindows (SpecWindows)
    startYear,    \* the argument `startYear`
    endYear,      \* the argument `endYear`
    granularity,  \* the argument `granularity`
    today,        \* <<year, month, day>> of new Date() inside the call
    winOut,       \* <<the array returned>>, empty before the call
    \* ---- fetchAndCalculateHIndex called without and then with a token for
    \* the same matches (SpecBoth)
    bothPc,       \* "off", "rest", "graphql"
    restOutcome,  \* what the call without a token returned, NoResult until then
    \* ---- the GraphQL loop with request and response as two steps (SpecLive)
    inFlight,     \* TRUE while a page request awaits its response
    \* ---- compareSearchTerms with request and response as two steps
    \* (SpecTrendSteps)
    awaited,      \* the terms whose request awaits its response, oldest first
    \* ---- the state of the GitHubHIndexApp component (SpecApp); its
    \* searchTerms and githubToken are the variables of those names above
    isLoading,
    error,               \* NoResult for null, or [message |-> the message]
    hIndexResults,       \* NoResult for null, or the result of the one term
    multiHIndexResults,  \* the results of a comparison, in order
    chartData,           \* NoResult for null, or term -> series or error
    showHIndexAnalysis,
    showTrendAnalysis,
    calls         \* the invocations of handleSearch, in the order started

hVars     == <<items, hProperty, hOut>>
fetchVars == <<upstream, githubToken, property, pc, rest, gql, requests, result>>
trendVars == <<searchTerms, timeWindows, metric, trendToken, termIdx, results,
               trendLog, trendPc>>
cmpVars   == <<matches, cmpPc, starResult, forkResult, mergedRepos, counts,
               cmpLog,
               cmpResult>>
winVars   == <<startYear, endYear, granularity, today, winOut>>
bothVars  == <<bothPc, restOutcome>>
liveVars  == <<inFlight, awaited>>
appVars   == <<isLoading, error, hIndexResults, multiHIndexResults, chartData,
               showHIndexAnalysis, showTrendAnalysis, calls>>
vars      == <<hVars, fetchVars, trendVars, cmpVars, winVars, bothVars, liveVars, appVars>>

-----------------------------------------------------------------------------
(* Bounds of the model.                                                    *)

MaxLen    == 5      \* longest input of calculateHIndex in SpecH
MaxScore  == 5      \* largest score of an item in SpecH
MaxBlocks == 2      \* number of equal-score blocks an upstream list is made of
MaxGqlRequests == 7 \* page requests of one GraphQL call the model follows
MaxTerms  == 3      \* longest searchTerms of compareSearchTerms
MaxWindows == 2     \* longest timeWindows of compareSearchTerms

Properties == {"stargazers_count", "forks_count"}

NoResult  == [none |-> TRUE]

-----------------------------------------------------------------------------
(* utils: calculateHIndex(repos, property).                                *)

\* [...repos].sort((a, b) => b[property] - a[property]): a stable sort of a
\* copy, descending by the property.
SortedReposAscending(repos, prop) ==
    SortSeq(repos, LAMBDA a, b : a[prop] < b[prop])

SortedReposAsGiven(repos, prop) == repos

SortedRepos(repos, prop) ==
    SortSeq(repos, LAMBDA a, b : a[prop] > b[prop])

\* The loop over sortedRepos: hIndex is i + 1 for every rank that passes
\* sortedRepos[i][property] >= i + 1, and the loop breaks at the first rank
\* that fails. firstFail is that rank (1-based), or length + 1 when no rank
\* fails.
ScanHIndexStrict(sortedRepos, prop) ==
    LET n == Len(sortedRepos)
        firstFail == CHOOSE i \in 1..(n + 1) :
                        /\ (i = n + 1 \/ ~(sortedRepos[i][prop] > i))
                        /\ \A j \in 1..(i - 1) : sortedRepos[j][prop] > j
    IN  firstFail - 1

ScanHIndexFromOne(sortedRepos, prop) ==
    LET n == Len(sortedRepos)
        firstFail == CHOOSE i \in 1..(n + 1) :
                        /\ (i = n + 1 \/ ~(sortedRepos[i][prop] >= i))
                        /\ \A j \in 1..(i - 1) : sortedRepos[j][prop] >= j
    IN  IF firstFail = 1 THEN 1 ELSE firstFail - 1

ScanHIndexOffByOne(sortedRepos, prop) ==
    LET n == Len(sortedRepos)
        firstFail == CHOOSE i \in 1..(n + 1) :
                        /\ (i = n + 1 \/ ~(sortedRepos[i][prop] >= i))
                        /\ \A j \in 1..(i - 1) : sortedRepos[j][prop] >= j
    IN  firstFail

ScanHIndex(sortedRepos, prop) ==
    LET n == Len(sortedRepos)
        firstFail == CHOOSE i \in 1..(n + 1) :
                        /\ (i = n + 1 \/ ~(sortedRepos[i][prop] >= i))
                        /\ \A j \in 1..(i - 1) : sortedRepos[j][prop] >= j
    IN  firstFail - 1

calculateHIndex(repos, prop) == ScanHIndex(SortedRepos(repos, prop), prop)

\* The array passed in, after the call: the sort works on the copy [...repos],
\* and nothing else writes to an array.
ReposAfterCall(repos, prop) == repos

-----------------------------------------------------------------------------
(* SpecH: calculateHIndex on every input within the bounds.                *)

\* An item whose score under prop is s; its other score field is 0.
ScoredItem(i, prop, s) ==
    IF prop = "stargazers_count"
    THEN [id |-> i, stargazers_count |-> s, forks_count |-> 0]
    ELSE [id |-> i, stargazers_count |-> 0, forks_count |-> s]

ScoreSeqs == UNION {[1..n -> 0..MaxScore] : n \in 0..MaxLen}

HIdle == /\ items = <<>>
         /\ hProperty = "stargazers_count"
         /\ hOut = <<>>

HInit ==
    /\ hProperty \in Properties
    /\ \E s \in ScoreSeqs :
          items = [i \in 1..Len(s) |-> ScoredItem(i, hProperty, s[i])]
    /\ hOut = <<>>

\* const h = calculateHIndex(items, property)
CallCalculateHIndex ==
    /\ hOut = <<>>
    /\ hOut' = <<calculateHIndex(items, hProperty)>>
    /\ items' = ReposAfterCall(items, hProperty)
    /\ UNCHANGED hProperty
    /\ UNCHANGED <<fetchVars, trendVars, cmpVars, winVars, bothVars, liveVars, appVars>>

-----------------------------------------------------------------------------
(* The upstream of one ranked fetch.                                       *)

perPage       == 100   \* REST: per_page, and first: 100 of the GraphQL query
maxPages      == 10    \* REST: while (... && page <= 10 ...)
graphqlCap    == 500   \* GraphQL: if (allRepos.length >= 500) break
graphqlMinLen == 100   \* GraphQL: allRepos.length >= 100 of the early stop

\* The upstream match list is made of blocks of items with equal scores.
Blocks ==
    { [n |-> 30,   stars |-> 30,   forks |-> 2000],
      [n |-> 100,  stars |-> 2000, forks |-> 5],
      [n |-> 1100, stars |-> 2000, forks |-> 150],
      [n |-> 100,  stars |-> 5,    forks |-> 30] }

BlockSeqs == UNION {[1..k -> Blocks] : k \in 0..MaxBlocks}

RECURSIVE Expand(_, _)
Expand(bs, firstId) ==
    IF bs = <<>> THEN <<>>
    ELSE [i \in 1..bs[1].n |->
             [id |-> firstId + i - 1,
              stargazers_count |-> bs[1].stars,
              forks_count |-> bs[1].forks]]
         \o Expand(Tail(bs), firstId + bs[1].n)

Upstreams == {Expand(bs, 1) : bs \in BlockSeqs}

Min(a, b) == IF a <= b THEN a ELSE b

\* The items at positions from + 1 .. from + n of the match list, as far as
\* the list goes.
Slice(from, n) ==
    LET last == Min(Len(upstream), from + n)
    IN  IF from >= last THEN <<>> ELSE SubSeq(upstream, from + 1, last)

\* A page may hold fewer items than asked for (and none, past the end of the
\* match list).
PageLens == {perPage - 1, perPage}

\* The total-match count a response reports: the size of the match list, or
\* a count that differs from it (the upstream count changes between pages).
ReportedTotals == {Len(upstream), Len(upstream) \div 2}

\* GraphQL: a Repository node of the search, and the object the code maps it
\* to (the REST format).
NodeOf(item) ==
    [id |-> item.id, stargazerCount |-> item.stargazers_count,
     forkCount |-> item.forks_count]

TransformNode(node) ==
    [id |-> node.id, stargazers_count |-> node.stargazerCount,
     forks_count |-> node.forkCount]

-----------------------------------------------------------------------------
(* services/githubService.js: fetchAndCalculateHIndex and its two          *)
(* strategies. One action is one iteration of a while loop: the request,   *)
(* the response and everything the code does with it up to the next await  *)
(* (the return statement included, when the loop ends).                    *)

RestLocals ==
    [repos |-> <<>>, page |-> 1, currentHIndex |-> 0, hasMoreRepos |-> TRUE,
     reachedHIndex |-> FALSE, totalItems |-> 0]

GqlLocals ==
    [allRepos |-> <<>>, hasNextPage |-> TRUE, endCursor |-> 0, totalCount |-> 0]

FetchIdle ==
    /\ upstream = <<>>
    /\ githubToken = FALSE
    /\ property = "stargazers_count"
    /\ pc = "idle"
    /\ rest = RestLocals
    /\ gql = GqlLocals
    /\ requests = <<>>
    /\ result = NoResult

FetchInit ==
    /\ upstream \in Upstreams
    /\ githubToken \in BOOLEAN
    /\ property \in Properties
    /\ pc = "idle"
    /\ rest = RestLocals
    /\ gql = GqlLocals
    /\ requests = <<>>
    /\ result = NoResult

\* fetchAndCalculateHIndex: GraphQL if a token is available, otherwise REST.
UseGraphQL(token) == token

CallFetch ==
    /\ pc = "idle"
    /\ pc' = IF UseGraphQL(githubToken) THEN "graphql" ELSE "rest"
    /\ UNCHANGED <<upstream, githubToken, property, rest, gql, requests, result>>
    /\ UNCHANGED <<hVars, trendVars, cmpVars, winVars, bothVars, liveVars, appVars>>

\* ---- REST

\* while (hasMoreRepos && page <= 10 && !reachedHIndex)
RestLoopGuardNoCap(r) == r.hasMoreRepos /\ ~r.reachedHIndex

RestLoopGuard(r) == r.hasMoreRepos /\ r.page <= maxPages /\ ~r.reachedHIndex

RestReachedIgnoringRank(repos, h, totalCount) ==
    /\ Len(repos) >= h * 2
    /\ (Len(repos) = totalCount \/ Len(repos) >= h * 3)

\* The early stop of the branch tempHIndex > currentHIndex.
RestReached(repos, h, totalCount) ==
    /\ Len(repos) >= h * 2
    /\ repos[h][property] = h
    /\ (Len(repos) = totalCount \/ Len(repos) >= h * 3)

\* The body of the loop after a successful response data = {items, total_count}.
RestAfterPageNoTrack(r, dataItems, totalCount) ==
    [r EXCEPT !.totalItems = totalCount, !.page = r.page + 1,
              !.repos = r.repos \o dataItems,
              !.hasMoreRepos = Len(dataItems) >= perPage]

RestAfterPage(r, dataItems, totalCount) ==
    LET repos == r.repos \o dataItems
        tempHIndex == calculateHIndex(repos, property)
    IN  IF Len(dataItems) > 0
        THEN [r EXCEPT
                !.totalItems = totalCount,
                !.repos = repos,
                !.currentHIndex =
                    IF tempHIndex > r.currentHIndex THEN tempHIndex ELSE @,
                !.reachedHIndex =
                    IF tempHIndex > r.currentHIndex
                    THEN IF RestReached(repos, tempHIndex, totalCount)
                         THEN TRUE ELSE @
                    ELSE IF Len(repos) >= perPage * 2
                            /\ tempHIndex = r.currentHIndex
                         THEN TRUE ELSE @,
                !.hasMoreRepos = IF Len(dataItems) < perPage THEN FALSE ELSE @,
                !.page = r.page + 1]
        ELSE [r EXCEPT !.totalItems = totalCount,
                       !.hasMoreRepos = FALSE,
                       !.page = r.page + 1]

RestResult(r) ==
    [hIndex |-> r.currentHIndex, repos |-> r.repos, totalItems |-> r.totalItems,
     totalFetched |-> Min(r.totalItems, Len(r.repos))]

\* One iteration with response.ok; page `page` of per_page = 100 starts after
\* (page - 1) * 100 items.
RestPageOk ==
    /\ pc = "rest"
    /\ RestLoopGuard(rest)
    /\ \E n \in PageLens, totalCount \in ReportedTotals :
          LET dataItems == Slice((rest.page - 1) * perPage, n)
              after == RestAfterPage(rest, dataItems, totalCount)
          IN  /\ rest' = after
              /\ IF RestLoopGuard(after)
                 THEN pc' = "rest" /\ result' = result
                 ELSE pc' = "returned" /\ result' = RestResult(after)
    /\ requests' = Append(requests, [api |-> "REST", outcome |-> "ok"])
    /\ UNCHANGED <<upstream, githubToken, property, gql>>
    /\ UNCHANGED <<hVars, trendVars, cmpVars, winVars, bothVars, liveVars, appVars>>

\* What the code does with a response that is not ok: throw (RetryOnFailure
\* would go on to the next iteration instead).
RetryOnFailure(current) == current

ThrowOnFailure(current) == "failed"

\* One iteration with !response.ok, or with fetch rejecting.
RestPageFail ==
    /\ pc = "rest"
    /\ RestLoopGuard(rest)
    /\ \E outcome \in {"http", "network"} :
          requests' = Append(requests, [api |-> "REST", outcome |-> outcome])
    /\ pc' = ThrowOnFailure(pc)
    /\ UNCHANGED <<upstream, githubToken, property, rest, gql, result>>
    /\ UNCHANGED <<hVars, trendVars, cmpVars, winVars, bothVars, liveVars, appVars>>

\* ---- GraphQL

\* The two breaks at the end of the loop body.
GqlBreakBelow100(allRepos) ==
    LET currentHIndex == calculateHIndex(allRepos, property)
    IN  \/ Len(allRepos) >= currentHIndex * 3
        \/ Len(allRepos) >= graphqlCap

GqlBreakNoCap(allRepos) ==
    LET currentHIndex == calculateHIndex(allRepos, property)
    IN  Len(allRepos) >= currentHIndex * 3 /\ Len(allRepos) >= graphqlMinLen

GqlBreak(allRepos) ==
    LET currentHIndex == calculateHIndex(allRepos, property)
    IN  \/ Len(allRepos) >= currentHIndex * 3 /\ Len(allRepos) >= graphqlMinLen
        \/ Len(allRepos) >= graphqlCap

GqlAfterPage(g, nodes, repositoryCount, pageInfo) ==
    [g EXCEPT !.totalCount = repositoryCount,
              !.allRepos = g.allRepos
                          \o [i \in 1..Len(nodes) |-> TransformNode(nodes[i])],
              !.hasNextPage = pageInfo.hasNextPage,
              !.endCursor = pageInfo.endCursor]

GqlResult(g) ==
    [hIndex |-> calculateHIndex(g.allRepos, property), repos |-> g.allRepos,
     totalItems |-> g.totalCount, totalFetched |-> Len(g.allRepos)]

\* One iteration with response.ok and no errors array: the nodes after the
\* cursor, at most first: 100 of them.
GqlPageOk ==
    /\ pc = "graphql"
    /\ gql.hasNextPage
    /\ Len(requests) < MaxGqlRequests
    /\ \E n \in PageLens, repositoryCount \in ReportedTotals, more \in BOOLEAN :
          LET page == Slice(gql.endCursor, n)
              nodes == [i \in 1..Len(page) |-> NodeOf(page[i])]
              pageInfo == [hasNextPage |-> more,
                           endCursor |-> gql.endCursor + Len(nodes)]
              after == GqlAfterPage(gql, nodes, repositoryCount, pageInfo)
          IN  /\ gql' = after
              /\ IF after.hasNextPage /\ ~GqlBreak(after.allRepos)
                 THEN pc' = "graphql" /\ result' = result
                 ELSE pc' = "returned" /\ result' = GqlResult(after)
    /\ requests' = Append(requests, [api |-> "GraphQL", outcome |-> "ok"])
    /\ UNCHANGED <<upstream, githubToken, property, rest>>
    /\ UNCHANGED <<hVars, trendVars, cmpVars, winVars, bothVars, liveVars, appVars>>

\* One iteration with !response.ok, with result.errors, or with fetch
\* rejecting: the catch block rethrows.
GqlPageFail ==
    /\ pc = "graphql"
    /\ gql.hasNextPage
    /\ Len(requests) < MaxGqlRequests
    /\ \E outcome \in {"http", "errors", "network"} :
          requests' = Append(requests, [api |-> "GraphQL", outcome |-> outcome])
    /\ pc' = ThrowOnFailure(pc)
    /\ UNCHANGED <<upstream, githubToken, property, rest, gql, result>>
    /\ UNCHANGED <<hVars, trendVars, cmpVars, winVars, bothVars, liveVars, appVars>>

-----------------------------------------------------------------------------
(* services/trendTrackerService.js: fetchTimeSeries, processTimeSeriesData *)
(* and compareSearchTerms.                                                 *)

Terms == {"react", "vue", "svelte", "angular"}

Metrics == {"repositories", "prs", "issues", "all"}

\* A date 'YYYY-MM-DD' is <<year, month, day>>; a window is {start, end}.
SampleWindows ==
    << [start |-> <<2021, 1, 1>>, end |-> <<2021, 12, 31>>],
       [start |-> <<2022, 1, 1>>, end |-> <<2022, 3, 31>>],
       [start |-> <<2022, 4, 1>>, end |-> <<2022, 4, 30>>],
       [start |-> <<2022, 5, 1>>, end |-> <<2022, 5, 31>>] >>

WindowLists ==
    {SubSeq(SampleWindows, 1, n) : n \in 0..Min(MaxWindows, Len(SampleWindows))}

TermLists ==
    {ts \in UNION {[1..n -> Terms] : n \in 0..MaxTerms} :
        \A i, j \in 1..Len(ts) : i # j => ts[i] # ts[j]}

DigitChars == <<"0", "1", "2", "3", "4", "5", "6", "7", "8", "9">>

\* String(n), also what a template literal makes of a number.
RECURSIVE String(_)
String(n) ==
    IF n < 10 THEN <<DigitChars[n + 1]>>
    ELSE String(n \div 10) \o <<DigitChars[(n % 10) + 1]>>

\* The alias `period${index}`, `period${index}_prs`, `period${index}_issues`
\* of the sub-query of window `index` (0-based): the word, the digits of the
\* index, and the suffix when there is one.
Alias(index, suffix) ==
    <<"period">> \o String(index) \o (IF suffix = "" THEN <<>> ELSE <<suffix>>)

\* The suffixes of the sub-queries the query string holds for every window.
Suffixes(m) ==
    {""} \cup (IF m = "prs" \/ m = "all" THEN {"_prs"} ELSE {})
         \cup (IF m = "issues" \/ m = "all" THEN {"_issues"} ELSE {})

QueryAliases(windows, m) ==
    {Alias(i - 1, sfx) : i \in 1..Len(windows), sfx \in Suffixes(m)}

\* What the upstream counts for one sub-query: a number that tells the term,
\* the window and the item type apart.
TermNo(term) ==
    CASE term = "react" -> 1 [] term = "vue" -> 2 [] term = "svelte" -> 3
      [] OTHER -> 4

UpstreamCount(term, window, suffix) ==
    TermNo(term) * 1000 + (window.start[1] - 2020) * 100 + window.start[2] * 3
    + (CASE suffix = "" -> 0 [] suffix = "_prs" -> 1 [] OTHER -> 2)

\* The sub-query (window number, suffix) that the query string labels with
\* alias a.
SubQueryOf(a, windows, m) ==
    CHOOSE q \in (1..Len(windows)) \X Suffixes(m) : Alias(q[1] - 1, q[2]) = a

\* result.data: alias -> <<count>>, or <<>> for an alias that came back null.
FullData(term, windows, m) ==
    [a \in QueryAliases(windows, m) |->
        LET q == SubQueryOf(a, windows, m)
        IN  <<UpstreamCount(term, windows[q[1]], q[2])>>]

PartialData(term, windows, m) ==
    [a \in QueryAliases(windows, m) |->
        LET q == SubQueryOf(a, windows, m)
        IN  IF q[1] = 1 THEN <<UpstreamCount(term, windows[1], q[2])>> ELSE <<>>]

NullData(windows, m) == [a \in QueryAliases(windows, m) |-> <<>>]

\* The responses the upstream may give to the batched query of one term.
Responses(term, windows, m) ==
    { [status |-> "ok", errors |-> FALSE, data |-> FullData(term, windows, m)],
      [status |-> "ok", errors |-> TRUE, data |-> NullData(windows, m)],
      [status |-> "ok", errors |-> TRUE, data |-> PartialData(term, windows, m)],
      [status |-> "http", errors |-> FALSE, data |-> NullData(windows, m)],
      [status |-> "network", errors |-> FALSE, data |-> NullData(windows, m)] }

\* formatPeriodLabel(window)
formatPeriodLabel(window) ==
    LET s == window.start
        e == window.end
    IN  IF s[1] = e[1] /\ s[2] = e[2] THEN <<"month", s[2], s[1]>>
        ELSE IF s[1] = e[1] /\ (s[2] - 1) \div 3 = (e[2] - 1) \div 3
             THEN <<"Q", (s[2] - 1) \div 3 + 1, s[1]>>
        ELSE IF s[2] = 1 /\ s[3] = 1 /\ e[2] = 12 /\ e[3] = 31
             THEN <<"year", s[1]>>
        ELSE <<"range", s, e>>

\* timePoint[field] = data[alias][countField], when data[alias] is there.
WithCount(timePoint, data, alias, field) ==
    IF alias \in DOMAIN data /\ data[alias] # <<>>
    THEN timePoint @@ (field :> data[alias][1])
    ELSE timePoint

\* processTimeSeriesData(data, timeWindows, metric)
TimePointWrongAlias(data, windows, i) ==
    LET timePoint == [period |-> formatPeriodLabel(windows[i]),
                      startDate |-> windows[i].start,
                      endDate |-> windows[i].end]
        withRepos == WithCount(timePoint, data, Alias(0, ""), "repositoryCount")
        withPrs == WithCount(withRepos, data, Alias(0, "_prs"), "prCount")
    IN  WithCount(withPrs, data, Alias(0, "_issues"), "issueCount")

TimePoint(data, windows, i) ==
    LET timePoint == [period |-> formatPeriodLabel(windows[i]),
                      startDate |-> windows[i].start,
                      endDate |-> windows[i].end]
        withRepos == WithCount(timePoint, data, Alias(i - 1, ""), "repositoryCount")
        withPrs == WithCount(withRepos, data, Alias(i - 1, "_prs"), "prCount")
    IN  WithCount(withPrs, data, Alias(i - 1, "_issues"), "issueCount")

processTimeSeriesData(data, windows, m) ==
    [i \in 1..Len(windows) |-> TimePoint(data, windows, i)]

\* fetchTimeSeries after the response: the time series it returns, or the
\* message of the error it throws.
Thrown(message) == [error |-> message]

FetchedIgnoringErrors(resp, windows, m) ==
    IF resp.status = "network" THEN Thrown("network")
    ELSE IF resp.status # "ok" THEN Thrown("GitHub GraphQL API returned")
    ELSE [data |-> processTimeSeriesData(resp.data, windows, m)]

Fetched(resp, windows, m) ==
    IF resp.status = "network" THEN Thrown("network")
    ELSE IF resp.status # "ok" THEN Thrown("GitHub GraphQL API returned")
    ELSE IF resp.errors THEN Thrown("GraphQL Error")
    ELSE [data |-> processTimeSeriesData(resp.data, windows, m)]

\* if (!githubToken) throw ...: checked before the query is built.
TokenNeverMissing(token) == FALSE

TokenMissing(token) == ~token

\* results[term] = entry
Put(rs, term, entry) ==
    [t \in DOMAIN rs \cup {term} |-> IF t = term THEN entry ELSE rs[t]]

\* The try/catch around fetchTimeSeries in the for..of loop: the entry of
\* the term is its data, or {error: message}, and the loop goes on.
AfterTermRethrow(rs, term, outcome) ==
    IF "error" \in DOMAIN outcome
    THEN [results |-> rs, goOn |-> FALSE]
    ELSE [results |-> Put(rs, term, outcome), goOn |-> TRUE]

AfterTerm(rs, term, outcome) ==
    IF "error" \in DOMAIN outcome
    THEN [results |-> Put(rs, term, [error |-> outcome.error]), goOn |-> TRUE]
    ELSE [results |-> Put(rs, term, outcome), goOn |-> TRUE]

TrendIdle ==
    /\ searchTerms = <<>>
    /\ timeWindows = <<>>
    /\ metric = "repositories"
    /\ trendToken = FALSE
    /\ termIdx = 1
    /\ results = <<>>
    /\ trendLog = <<>>
    /\ trendPc = "idle"

TrendInit ==
    /\ searchTerms \in TermLists
    /\ timeWindows \in WindowLists
    /\ metric \in Metrics
    /\ trendToken \in BOOLEAN
    /\ termIdx = 1
    /\ results = <<>>
    /\ trendLog = <<>>
    /\ trendPc = "idle"

\* compareSearchTerms up to the first await: results = {}, and the return
\* when there is no term.
CallCompare ==
    /\ trendPc = "idle"
    /\ trendPc' = IF Len(searchTerms) = 0 THEN "returned" ELSE "loop"
    /\ UNCHANGED <<searchTerms, timeWindows, metric, trendToken, termIdx,
                   results, trendLog>>
    /\ UNCHANGED <<hVars, fetchVars, cmpVars, winVars, bothVars, liveVars, appVars>>

\* The position of the loop after the iteration of searchTerms[termIdx].
TrendPcAfter(goOn) ==
    IF ~goOn THEN "failed"
    ELSE IF termIdx + 1 > Len(searchTerms) THEN "returned" ELSE "loop"

\* One iteration without a token: fetchTimeSeries throws before it builds
\* the query.
TermNoToken ==
    /\ trendPc = "loop"
    /\ TokenMissing(trendToken)
    /\ LET term == searchTerms[termIdx]
           after == AfterTerm(results, term,
                       Thrown("GitHub token is required for time trend analysis"))
       IN  /\ results' = after.results
           /\ trendPc' = TrendPcAfter(after.goOn)
    /\ termIdx' = termIdx + 1
    /\ UNCHANGED <<searchTerms, timeWindows, metric, trendToken, trendLog>>
    /\ UNCHANGED <<hVars, fetchVars, cmpVars, winVars, bothVars, liveVars, appVars>>

\* One iteration with a token: one POST of the batched query, and its
\* response.
TermFetch ==
    /\ trendPc = "loop"
    /\ ~TokenMissing(trendToken)
    /\ LET term == searchTerms[termIdx]
       IN  /\ \E resp \in Responses(term, timeWindows, metric) :
                 LET after == AfterTerm(results, term,
                                        Fetched(resp, timeWindows, metric))
                 IN  /\ results' = after.results
                     /\ trendPc' = TrendPcAfter(after.goOn)
                     /\ trendLog' = Append(trendLog,
                            [term |-> term,
                             aliases |-> QueryAliases(timeWindows, metric),
                             response |-> resp])
    /\ termIdx' = termIdx + 1
    /\ UNCHANGED <<searchTerms, timeWindows, metric, trendToken>>
    /\ UNCHANGED <<hVars, fetchVars, cmpVars, winVars, bothVars, liveVars, appVars>>

-----------------------------------------------------------------------------
(* The search component: processSearchTermForHIndex, with getTotalCount of *)
(* services/githubService.js. The two ranked fetches run one after the     *)
(* other on the variables of fetchAndCalculateHIndex; the three counts are *)
(* requested together and answered in any order.                           *)

topCount == 10   \* .slice(0, 10) of topStarredRepos and topForkedRepos

ItemTypes == {"repositories", "pull_requests", "discussions"}

\* The repositories matching the term: none, three, and 160 of which 30
\* score high in stars only and 30 others in forks only.
MatchBlockSeqs ==
    { <<>>,
      <<[n |-> 3, stars |-> 2, forks |-> 1]>>,
      <<[n |-> 30, stars |-> 30, forks |-> 5],
        [n |-> 100, stars |-> 5, forks |-> 5],
        [n |-> 30, stars |-> 5, forks |-> 30]>> }

MatchSets == {Expand(bs, 1) : bs \in MatchBlockSeqs}

\* The order a ranked fetch is served the matches in: REST asks for
\* sort=stars or sort=forks with order=desc; the GraphQL query names no
\* order, so both passes are served the best-match order.
Delivered(ms, prop, token) ==
    IF UseGraphQL(token) THEN ms ELSE SortedRepos(ms, prop)

\* [...new Map(list.map(repo => [repo.id, repo])).values()]: one entry per
\* id, at the place of the id's first occurrence, holding the id's last
\* occurrence.
MapValuesKeepAll(list) == list

MapValues(list) ==
    LET n == Len(list)
        firsts == SelectSeq([i \in 1..n |-> i],
                      LAMBDA i : \A j \in 1..(i - 1) : list[j].id # list[i].id)
        lastOf(id) == LET js == {j \in 1..n : list[j].id = id}
                      IN  CHOOSE j \in js : \A k \in js : k <= j
    IN  [k \in 1..Len(firsts) |-> list[lastOf(list[firsts[k]].id)]]

\* [...allRepos].sort((a, b) => b[prop] - a[prop]).slice(0, 10)
TopRepos(repos, prop) ==
    LET sorted == SortedRepos(repos, prop)
    IN  SubSeq(sorted, 1, Min(topCount, Len(sorted)))

\* ---- getTotalCount

\* The number of items of a type that match the term upstream.
MatchCount(itemType) ==
    CASE itemType = "repositories"  -> Len(matches)
      [] itemType = "pull_requests" -> 2 * Len(matches) + 1
      [] itemType = "discussions"   -> Len(matches) + 2

\* The call up to its first await: 'discussions' without a token returns 0
\* before any request; every other call sends one request.
SendsRequest(itemType, token) == ~(itemType = "discussions" /\ ~token)

CountApi(itemType) == IF itemType = "discussions" THEN "GraphQL" ELSE "REST"

\* The answers to the request: ok with the count, a status that is not ok,
\* fetch or response.json() rejecting and, for GraphQL, an errors array.
CountResponses(itemType) ==
    {[outcome |-> "ok", count |-> MatchCount(itemType)]}
    \cup {[outcome |-> o, count |-> 0] :
             o \in IF CountApi(itemType) = "GraphQL"
                   THEN {"http", "errors", "network"}
                   ELSE {"http", "network"}}

\* The call after the answer: data.total_count || 0 (discussionCount || 0)
\* of an ok answer; return 0 from the !response.ok branch, the errors branch
\* and the catch block.
CountAfterRethrow(response) ==
    IF response.outcome = "ok"
    THEN [threw |-> FALSE, value |-> response.count]
    ELSE [threw |-> TRUE, value |-> 0]

CountAfter(response) ==
    [threw |-> FALSE,
     value |-> IF response.outcome = "ok" THEN response.count ELSE 0]

NotCalled == [st |-> "none"]
Pending   == [st |-> "pending"]
Settled(value, outcome) == [st |-> "done", value |-> value, outcome |-> outcome]

\* Promise.all([...]) at the moment the three calls reach their first await.
CountsIssued(token) ==
    [t \in ItemTypes |->
        IF SendsRequest(t, token) THEN Pending ELSE Settled(0, "no request")]

CountRequests(token) ==
    SelectSeq(<<[api |-> "REST", itemType |-> "repositories"],
                [api |-> "REST", itemType |-> "pull_requests"],
                [api |-> "GraphQL", itemType |-> "discussions"]>>,
              LAMBDA q : SendsRequest(q.itemType, token))

\* ---- processSearchTermForHIndex

CmpIdle ==
    /\ matches = <<>>
    /\ cmpPc = "off"
    /\ starResult = NoResult
    /\ forkResult = NoResult
    /\ mergedRepos = <<>>
    /\ counts = [t \in ItemTypes |-> NotCalled]
    /\ cmpLog = <<>>
    /\ cmpResult = NoResult

\* The call has reached its first statement: the star fetch is about to run.
CmpInit ==
    /\ matches \in MatchSets
    /\ githubToken \in BOOLEAN
    /\ cmpPc = "star"
    /\ property = "stargazers_count"
    /\ upstream = Delivered(matches, "stargazers_count", githubToken)
    /\ pc = "idle"
    /\ rest = RestLocals
    /\ gql = GqlLocals
    /\ requests = <<>>
    /\ result = NoResult
    /\ starResult = NoResult
    /\ forkResult = NoResult
    /\ mergedRepos = <<>>
    /\ counts = [t \in ItemTypes |-> NotCalled]
    /\ cmpLog = <<>>
    /\ cmpResult = NoResult

\* const starResult = await ...; then the fork fetch is called.
StarReturned ==
    /\ cmpPc = "star"
    /\ pc = "returned"
    /\ starResult' = result
    /\ cmpLog' = cmpLog \o requests
    /\ cmpPc' = "fork"
    /\ property' = "forks_count"
    /\ upstream' = Delivered(matches, "forks_count", githubToken)
    /\ pc' = "idle"
    /\ rest' = RestLocals
    /\ gql' = GqlLocals
    /\ requests' = <<>>
    /\ result' = NoResult
    /\ UNCHANGED <<githubToken, matches, forkResult, mergedRepos, counts, cmpResult>>
    /\ UNCHANGED <<hVars, trendVars, winVars, bothVars, liveVars, appVars>>

\* A function that caught the rejection of the star fetch would go on to the
\* fork fetch without a star result.
RankedFetchSwallowed ==
    /\ cmpPc = "star"
    /\ pc = "failed"
    /\ cmpLog' = cmpLog \o requests
    /\ cmpPc' = "fork"
    /\ property' = "forks_count"
    /\ upstream' = Delivered(matches, "forks_count", githubToken)
    /\ pc' = "idle"
    /\ rest' = RestLocals
    /\ gql' = GqlLocals
    /\ requests' = <<>>
    /\ result' = NoResult
    /\ UNCHANGED <<githubToken, matches, starResult, forkResult, mergedRepos,
                   counts, cmpResult>>
    /\ UNCHANGED <<hVars, trendVars, winVars, bothVars, liveVars, appVars>>

\* Either await of a ranked fetch throws: there is no try in the function,
\* so the call rejects.
RankedFetchThrew ==
    /\ cmpPc \in {"star", "fork"}
    /\ pc = "failed"
    /\ cmpPc' = "failed"
    /\ cmpLog' = cmpLog \o requests
    /\ requests' = <<>>
    /\ UNCHANGED <<upstream, githubToken, property, pc, rest, gql, result>>
    /\ UNCHANGED <<matches, starResult, forkResult, mergedRepos, counts, cmpResult>>
    /\ UNCHANGED <<hVars, trendVars, winVars, bothVars, liveVars, appVars>>

\* const forkResult = await ...; the merge; the three getTotalCount calls
\* of Promise.all, each run to its first await.
ForkReturned ==
    /\ cmpPc = "fork"
    /\ pc = "returned"
    /\ forkResult' = result
    /\ mergedRepos' = MapValues(starResult.repos \o result.repos)
    /\ counts' = CountsIssued(githubToken)
    /\ cmpLog' = cmpLog \o requests \o CountRequests(githubToken)
    /\ cmpPc' = "counts"
    /\ requests' = <<>>
    /\ UNCHANGED <<upstream, githubToken, property, pc, rest, gql, result>>
    /\ UNCHANGED <<matches, starResult, cmpResult>>
    /\ UNCHANGED <<hVars, trendVars, winVars, bothVars, liveVars, appVars>>

CmpReturn(c) ==
    [starHIndex |-> starResult.hIndex,
     forkHIndex |-> forkResult.hIndex,
     totalRepos |-> c["repositories"].value,
     analyzedRepos |-> Len(mergedRepos),
     totalPRs |-> c["pull_requests"].value,
     totalDiscussions |-> c["discussions"].value,
     topStarredRepos |-> TopRepos(mergedRepos, "stargazers_count"),
     topForkedRepos |-> TopRepos(mergedRepos, "forks_count"),
     githubToken |-> githubToken]

\* One of the pending getTotalCount calls is answered and returns; when it
\* is the last one, Promise.all resolves and the function returns.
CountResponse ==
    /\ cmpPc = "counts"
    /\ \E t \in ItemTypes :
          /\ counts[t] = Pending
          /\ \E response \in CountResponses(t) :
                LET out == CountAfter(response)
                    after == [counts EXCEPT
                                ![t] = Settled(out.value, response.outcome)]
                IN  IF out.threw
                    THEN /\ cmpPc' = "failed"
                         /\ UNCHANGED <<counts, cmpResult>>
                    ELSE /\ counts' = after
                         /\ IF \A u \in ItemTypes : after[u].st = "done"
                            THEN /\ cmpPc' = "returned"
                                 /\ cmpResult' = CmpReturn(after)
                            ELSE UNCHANGED <<cmpPc, cmpResult>>
    /\ UNCHANGED <<matches, starResult, forkResult, mergedRepos, cmpLog>>
    /\ UNCHANGED <<hVars, fetchVars, trendVars, winVars, bothVars, liveVars, appVars>>

-----------------------------------------------------------------------------
(* services/trendTrackerService.js: generateTimeWindows and isLeapYear.    *)
(* A date string is the sequence of its characters; years are numbers, as  *)
(* the component passes them (parseInt leaves a number as it is).          *)

\* str.padStart(targetLength, padString) with a one-character padString.
RECURSIVE padStart(_, _, _)
padStart(str, targetLength, padString) ==
    IF Len(str) >= targetLength THEN str
    ELSE padStart(<<padString>> \o str, targetLength, padString)

Dash == <<"-">>

isLeapYearJulian(year) == year % 4 = 0

isLeapYear(year) ==
    (year % 4 = 0 /\ year % 100 # 0) \/ (year % 400 = 0)

\* endMonth === 2 ? (isLeapYear(year) ? 29 : 28)
\*                : [4, 6, 9, 11].includes(endMonth) ? 30 : 31
EndDay(year, endMonth) ==
    IF endMonth = 2 THEN (IF isLeapYear(year) THEN 29 ELSE 28)
    ELSE IF endMonth \in {4, 6, 9, 11} THEN 30 ELSE 31

\* Math.ceil(currentMonth / 3)
QuarterOf(month) == (month + 2) \div 3

\* The three `continue` conditions.
SkipYearNever(year, currentYear) == FALSE

SkipYear(year, currentYear) == year = currentYear

SkipQuarter(year, quarter, currentYear, currentQuarter) ==
    year = currentYear /\ quarter >= currentQuarter

SkipMonth(year, month, currentYear, currentMonth) ==
    year = currentYear /\ month >= currentMonth

\* The objects pushed.
YearWindow(year) ==
    [start |-> String(year) \o Dash \o <<"0", "1">> \o Dash \o <<"0", "1">>,
     end   |-> String(year) \o Dash \o <<"1", "2">> \o Dash \o <<"3", "1">>]

QuarterEndMonthOverlapping(quarter) == quarter * 3 + 1

QuarterEndMonth(quarter) == quarter * 3

QuarterWindow(year, quarter) ==
    LET startMonth == (quarter - 1) * 3 + 1
        endMonth == QuarterEndMonth(quarter)
        endDay == EndDay(year, endMonth)
    IN  [start |-> String(year) \o Dash \o padStart(String(startMonth), 2, "0")
                   \o Dash \o <<"0", "1">>,
         end   |-> String(year) \o Dash \o padStart(String(endMonth), 2, "0")
                   \o Dash \o String(endDay)]

MonthWindow(year, month) ==
    LET endDay == EndDay(year, month)
    IN  [start |-> String(year) \o Dash \o padStart(String(month), 2, "0")
                   \o Dash \o <<"0", "1">>,
         end   |-> String(year) \o Dash \o padStart(String(month), 2, "0")
                   \o Dash \o String(endDay)]

\* The inner loop of one year: the windows pushed while `year` has this value.
WindowsOfYear(year, gran, now) ==
    LET currentYear == now[1]
        currentMonth == now[2]
        currentQuarter == QuarterOf(currentMonth)
        quarters == SelectSeq(<<1, 2, 3, 4>>, LAMBDA q :
                        ~SkipQuarter(year, q, currentYear, currentQuarter))
        months == SelectSeq([m \in 1..12 |-> m], LAMBDA m :
                        ~SkipMonth(year, m, currentYear, currentMonth))
    IN  CASE gran = "year" ->
                IF SkipYear(year, currentYear) THEN <<>> ELSE <<YearWindow(year)>>
          [] gran = "quarter" ->
                [k \in 1..Len(quarters) |-> QuarterWindow(year, quarters[k])]
          [] gran = "month" ->
                [k \in 1..Len(months) |-> MonthWindow(year, months[k])]
          [] OTHER -> <<>>

\* for (let year = parseInt(startYear); year <= parseInt(endYear); year++)
YearLoopGuardExclusive(year, lastYear) == year < lastYear

YearLoopGuard(year, lastYear) == year <= lastYear

RECURSIVE WindowsFrom(_, _, _, _)
WindowsFrom(year, lastYear, gran, now) ==
    IF YearLoopGuard(year, lastYear)
    THEN WindowsOfYear(year, gran, now)
         \o WindowsFrom(year + 1, lastYear, gran, now)
    ELSE <<>>

generateTimeWindows(first, last, gran, now) == WindowsFrom(first, last, gran, now)

\* ---- SpecWindows: generateTimeWindows on every input within the bounds.

MaxSpan == 2     \* endYear is at most startYear + MaxSpan

\* Start years next to an ordinary leap year, to 1900, 2000 and 2100.
StartYears == {1899, 1999, 2019, 2023, 2098}

Granularities == {"year", "quarter", "month", "week"}

WinIdle ==
    /\ startYear = 0
    /\ endYear = 0
    /\ granularity = "year"
    /\ today = <<0, 0, 0>>
    /\ winOut = <<>>

WinInit ==
    /\ startYear \in StartYears
    /\ endYear \in (startYear - 1)..(startYear + MaxSpan)
    /\ granularity \in Granularities
    /\ today \in ((startYear - 1)..(endYear + 1)) \X (1..12) \X {1, 28}
    /\ winOut = <<>>

CallGenerateTimeWindows ==
    /\ winOut = <<>>
    /\ winOut' = <<generateTimeWindows(startYear, endYear, granularity, today)>>
    /\ UNCHANGED <<startYear, endYear, granularity, today>>
    /\ UNCHANGED <<hVars, fetchVars, trendVars, cmpVars, bothVars, liveVars, appVars>>

-----------------------------------------------------------------------------
(* fetchAndCalculateHIndex for one set of matches and one property, first  *)
(* without a token (REST), then with one (GraphQL).                        *)

BothIdle ==
    /\ bothPc = "off"
    /\ restOutcome = NoResult

\* The call without a token is about to run.
BothInit ==
    /\ matches \in MatchSets
    /\ property \in Properties
    /\ githubToken = FALSE
    /\ upstream = Delivered(matches, property, FALSE)
    /\ pc = "idle"
    /\ rest = RestLocals
    /\ gql = GqlLocals
    /\ requests = <<>>
    /\ result = NoResult
    /\ cmpPc = "off"
    /\ starResult = NoResult
    /\ forkResult = NoResult
    /\ mergedRepos = <<>>
    /\ counts = [t \in ItemTypes |-> NotCalled]
    /\ cmpLog = <<>>
    /\ cmpResult = NoResult
    /\ bothPc = "rest"
    /\ restOutcome = NoResult

\* The call without a token has returned; the same call is made with a token.
CallWithToken ==
    /\ bothPc = "rest"
    /\ pc = "returned"
    /\ restOutcome' = result
    /\ bothPc' = "graphql"
    /\ githubToken' = TRUE
    /\ upstream' = Delivered(matches, property, TRUE)
    /\ pc' = "idle"
    /\ rest' = RestLocals
    /\ gql' = GqlLocals
    /\ requests' = <<>>
    /\ result' = NoResult
    /\ UNCHANGED property
    /\ UNCHANGED <<hVars, trendVars, cmpVars, winVars, liveVars, appVars>>

-----------------------------------------------------------------------------
(* fetchAndCalculateHIndexGraphQL with the request and the response of a   *)
(* page as two steps, and without the log of requests: the loop for as     *)
(* long as it runs.                                                        *)

LiveIdle == inFlight = FALSE /\ awaited = <<>>

LiveInit ==
    /\ upstream \in Upstreams
    /\ githubToken = TRUE
    /\ property \in Properties
    /\ pc = "idle"
    /\ rest = RestLocals
    /\ gql = GqlLocals
    /\ requests = <<>>
    /\ result = NoResult
    /\ inFlight = FALSE
    /\ awaited = <<>>

\* while (hasNextPage) { ... await fetch(url, ...)
GqlSendPage ==
    /\ pc = "graphql"
    /\ gql.hasNextPage
    /\ ~inFlight
    /\ inFlight' = TRUE
    /\ UNCHANGED awaited
    /\ UNCHANGED <<hVars, fetchVars, trendVars, cmpVars, winVars, bothVars, appVars>>

\* The response is ok and has no errors array: the rest of the iteration.
GqlReceivePage ==
    /\ pc = "graphql"
    /\ inFlight
    /\ inFlight' = FALSE
    /\ UNCHANGED awaited
    /\ \E n \in PageLens, repositoryCount \in ReportedTotals, more \in BOOLEAN :
          LET page == Slice(gql.endCursor, n)
              nodes == [i \in 1..Len(page) |-> NodeOf(page[i])]
              pageInfo == [hasNextPage |-> more,
                           endCursor |-> gql.endCursor + Len(nodes)]
              after == GqlAfterPage(gql, nodes, repositoryCount, pageInfo)
          IN  /\ gql' = after
              /\ IF after.hasNextPage /\ ~GqlBreak(after.allRepos)
                 THEN pc' = "graphql" /\ result' = result
                 ELSE pc' = "returned" /\ result' = GqlResult(after)
    /\ UNCHANGED <<upstream, githubToken, property, rest, requests>>
    /\ UNCHANGED <<hVars, trendVars, cmpVars, winVars, bothVars, appVars>>

\* The response is not ok or has errors, or fetch rejects.
GqlReceiveFailure ==
    /\ pc = "graphql"
    /\ inFlight
    /\ inFlight' = FALSE
    /\ UNCHANGED awaited
    /\ pc' = ThrowOnFailure(pc)
    /\ UNCHANGED <<upstream, githubToken, property, rest, gql, requests, result>>
    /\ UNCHANGED <<hVars, trendVars, cmpVars, winVars, bothVars, appVars>>

-----------------------------------------------------------------------------
(* compareSearchTerms with the request and the response of a term as two   *)
(* steps: what is in flight while the loop waits.                          *)

\* `await fetchTimeSeries(...)` inside the for..of loop: the iteration, and
\* with it the loop, is suspended until the request in flight is settled.
LoopNeverSuspended(flying) == FALSE

LoopSuspended(flying) == flying # <<>>

\* fetchTimeSeries up to `await fetch(...)`: the batched query is posted.
TermSend ==
    /\ trendPc = "loop"
    /\ ~TokenMissing(trendToken)
    /\ ~LoopSuspended(awaited)
    /\ LET term == searchTerms[termIdx]
       IN  /\ trendLog' = Append(trendLog,
                  [term |-> term, aliases |-> QueryAliases(timeWindows, metric)])
           /\ awaited' = Append(awaited, term)
    /\ UNCHANGED inFlight
    /\ UNCHANGED <<searchTerms, timeWindows, metric, trendToken, termIdx,
                   results, trendPc>>
    /\ UNCHANGED <<hVars, fetchVars, cmpVars, winVars, bothVars, appVars>>

\* The response arrives: the rest of fetchTimeSeries and of the iteration.
TermReceive ==
    /\ trendPc = "loop"
    /\ awaited # <<>>
    /\ LET term == Head(awaited)
       IN  \E resp \in Responses(term, timeWindows, metric) :
              LET after == AfterTerm(results, term,
                                     Fetched(resp, timeWindows, metric))
              IN  /\ results' = after.results
                  /\ trendPc' = TrendPcAfter(after.goOn)
    /\ termIdx' = termIdx + 1
    /\ awaited' = Tail(awaited)
    /\ UNCHANGED inFlight
    /\ UNCHANGED <<searchTerms, timeWindows, metric, trendToken, trendLog>>
    /\ UNCHANGED <<hVars, fetchVars, cmpVars, winVars, bothVars, appVars>>

-----------------------------------------------------------------------------
(* The GitHubHIndexApp component: handleSearch, started by the Analyze      *)
(* control of TagInput. The control is not disabled while isLoading, so    *)
(* several invocations may be awaiting at once; each holds the state of    *)
(* the render it was started from and its own locals, and all write the    *)
(* state of the component. processSearchTermForHIndex and                  *)
(* compareSearchTerms are taken by their outcomes here.                    *)

MaxCalls == 2

\* The tags of the component: lists of distinct terms.
AppTerms == {"react", "vue"}
AppTermLists == {ts \in TermLists : \A i \in DOMAIN ts : ts[i] \in AppTerms}

AppWindows == SubSeq(SampleWindows, 1, 1)
AppMetric == "repositories"

AppIdle ==
    /\ isLoading = FALSE
    /\ error = NoResult
    /\ hIndexResults = NoResult
    /\ multiHIndexResults = <<>>
    /\ chartData = NoResult
    /\ showHIndexAnalysis = FALSE
    /\ showTrendAnalysis = TRUE
    /\ calls = <<>>

AppInit ==
    /\ searchTerms \in AppTermLists
    /\ githubToken \in BOOLEAN
    /\ showHIndexAnalysis \in BOOLEAN
    /\ showTrendAnalysis \in BOOLEAN
    /\ isLoading = FALSE
    /\ error = NoResult
    /\ hIndexResults = NoResult
    /\ multiHIndexResults = <<>>
    /\ chartData = NoResult
    /\ calls = <<>>
    /\ upstream = <<>>
    /\ property = "stargazers_count"
    /\ pc = "idle"
    /\ rest = RestLocals
    /\ gql = GqlLocals
    /\ requests = <<>>
    /\ result = NoResult
    /\ timeWindows = <<>>
    /\ metric = "repositories"
    /\ trendToken = FALSE
    /\ termIdx = 1
    /\ results = <<>>
    /\ trendLog = <<>>
    /\ trendPc = "idle"

\* The object processSearchTermForHIndex returns for a term, by the field
\* that tells the terms apart.
ComparativeResult(term) == [searchTerm |-> term]

\* if (showTrendAnalysis && githubToken) { ... } finally { ... }
TrendStage(call) ==
    IF call.showTrendAnalysis /\ call.githubToken THEN "trend" ELSE "done"

\* The position of an invocation after its H-Index part.
AfterHIndexPart(call) == TrendStage(call)

\* The catch inside the loop of the comparison: console.error, and nothing
\* is pushed for the term.
SkipFailedTerm(found, term) == found

\* What compareSearchTerms returns for the terms, given the response to the
\* request of each.
TrendData(terms, resp) ==
    [t \in {terms[i] : i \in DOMAIN terms} |->
        AfterTerm(<<>>, t, Fetched(resp[t], AppWindows, AppMetric)).results[t]]

AppResponses(term) ==
    {r \in Responses(term, AppWindows, AppMetric) :
        r.status \in {"ok", "http"} /\ ~r.errors}

\* A click on Analyze (or the keyboard shortcut): handleSearch up to its
\* first await, or to its end when it awaits nothing.
Analyze ==
    /\ Len(calls) < MaxCalls
    /\ IF Len(searchTerms) = 0
       THEN /\ error' = [message |-> "Please add at least one search term"]
            /\ UNCHANGED <<isLoading, calls>>
       ELSE LET call == [searchTerms |-> searchTerms,
                         showHIndexAnalysis |-> showHIndexAnalysis,
                         showTrendAnalysis |-> showTrendAnalysis,
                         githubToken |-> githubToken,
                         pc |-> "hindex",
                         idx |-> 1,
                         results |-> <<>>,
                         failed |-> {},
                         data |-> NoResult]
                first == IF showHIndexAnalysis THEN "hindex"
                         ELSE TrendStage(call)
            IN  /\ error' = NoResult
                /\ calls' = Append(calls, [call EXCEPT !.pc = first])
                /\ isLoading' = (first # "done")
    /\ UNCHANGED <<hIndexResults, multiHIndexResults, chartData,
                   showHIndexAnalysis, showTrendAnalysis>>
    /\ UNCHANGED <<hVars, fetchVars, trendVars, cmpVars, winVars, bothVars, liveVars>>

\* processSearchTermForHIndex of the current term of an invocation settles:
\* it returned, or it rejected.
HIndexTermSettled ==
    \E c \in DOMAIN calls : \E ok \in BOOLEAN :
        LET call == calls[c]
            terms == call.searchTerms
            term == terms[call.idx]
        IN  /\ call.pc = "hindex"
            /\ IF Len(terms) > 1
               THEN LET found == IF ok
                                 THEN Append(call.results, ComparativeResult(term))
                                 ELSE SkipFailedTerm(call.results, term)
                        failed == IF ok THEN call.failed
                                  ELSE call.failed \cup {term}
                    IN  IF call.idx < Len(terms)
                        THEN /\ calls' = [calls EXCEPT
                                            ![c].idx = call.idx + 1,
                                            ![c].results = found,
                                            ![c].failed = failed]
                             /\ UNCHANGED <<isLoading, error, hIndexResults,
                                            multiHIndexResults>>
                        ELSE /\ multiHIndexResults' = found
                             /\ hIndexResults' = NoResult
                             /\ calls' = [calls EXCEPT
                                            ![c].results = found,
                                            ![c].failed = failed,
                                            ![c].pc = AfterHIndexPart(call)]
                             /\ isLoading' = IF AfterHIndexPart(call) = "done"
                                             THEN FALSE ELSE isLoading
                             /\ UNCHANGED error
               ELSE IF ok
                    THEN /\ hIndexResults' = ComparativeResult(term)
                         /\ multiHIndexResults' = <<>>
                         /\ calls' = [calls EXCEPT
                                        ![c].pc = AfterHIndexPart(call)]
                         /\ isLoading' = IF AfterHIndexPart(call) = "done"
                                         THEN FALSE ELSE isLoading
                         /\ UNCHANGED error
                    ELSE /\ error' = [message |-> "rejected"]
                         /\ calls' = [calls EXCEPT
                                        ![c].pc = "done",
                                        ![c].failed = {term}]
                         /\ isLoading' = FALSE
                         /\ UNCHANGED <<hIndexResults, multiHIndexResults>>
    /\ UNCHANGED <<chartData, showHIndexAnalysis, showTrendAnalysis>>
    /\ UNCHANGED <<hVars, fetchVars, trendVars, cmpVars, winVars, bothVars, liveVars>>

\* compareSearchTerms of an invocation returns: setChartData(data), and the
\* finally block.
TrendSettled ==
    \E c \in DOMAIN calls :
        LET call == calls[c]
            terms == call.searchTerms
        IN  /\ call.pc = "trend"
            /\ \E resp \in [{terms[i] : i \in DOMAIN terms} ->
                              UNION {AppResponses(t) : t \in AppTerms}] :
                  /\ \A t \in DOMAIN resp : resp[t] \in AppResponses(t)
                  /\ chartData' = TrendData(terms, resp)
                  /\ calls' = [calls EXCEPT
                                 ![c].pc = "done",
                                 ![c].data = TrendData(terms, resp)]
            /\ isLoading' = FALSE
    /\ UNCHANGED <<error, hIndexResults, multiHIndexResults,
                   showHIndexAnalysis, showTrendAnalysis>>
    /\ UNCHANGED <<hVars, fetchVars, trendVars, cmpVars, winVars, bothVars, liveVars>>

\* removeTag of TagInput: setTags(tags.filter(...)), at any time.
RemoveTag ==
    /\ \E i \in DOMAIN searchTerms :
          searchTerms' = SubSeq(searchTerms, 1, i - 1)
                         \o SubSeq(searchTerms, i + 1, Len(searchTerms))
    /\ UNCHANGED <<timeWindows, metric, trendToken, termIdx, results, trendLog,
                   trendPc>>
    /\ UNCHANGED <<hVars, fetchVars, cmpVars, winVars, bothVars, liveVars, appVars>>

-----------------------------------------------------------------------------
(* The specifications.                                                     *)

InitH == HInit /\ FetchIdle /\ TrendIdle /\ CmpIdle /\ WinIdle /\ BothIdle /\ LiveIdle
    /\ AppIdle
NextH == CallCalculateHIndex
SpecH == InitH /\ [][NextH]_vars

Init == HIdle /\ FetchInit /\ TrendIdle /\ CmpIdle /\ WinIdle /\ BothIdle /\ LiveIdle
    /\ AppIdle
Next ==
    \/ CallFetch
    \/ RestPageOk
    \/ RestPageFail
    \/ GqlPageOk
    \/ GqlPageFail
Spec == Init /\ [][Next]_vars

InitTrend == HIdle /\ FetchIdle /\ TrendInit /\ CmpIdle /\ WinIdle /\ BothIdle /\ LiveIdle
    /\ AppIdle
NextTrend ==
    \/ CallCompare
    \/ TermNoToken
    \/ TermFetch
SpecTrend == InitTrend /\ [][NextTrend]_vars

InitCompare == HIdle /\ CmpInit /\ TrendIdle /\ WinIdle /\ BothIdle /\ LiveIdle
    /\ AppIdle
NextCompare ==
    \/ CallFetch
    \/ RestPageOk
    \/ RestPageFail
    \/ GqlPageOk
    \/ GqlPageFail
    \/ StarReturned
    \/ RankedFetchThrew
    \/ ForkReturned
    \/ CountResponse
SpecCompare == InitCompare /\ [][NextCompare]_vars

InitWindows == HIdle /\ FetchIdle /\ TrendIdle /\ CmpIdle /\ WinInit /\ BothIdle /\ LiveIdle
    /\ AppIdle
NextWindows == CallGenerateTimeWindows
SpecWindows == InitWindows /\ [][NextWindows]_vars

InitBoth == HIdle /\ BothInit /\ TrendIdle /\ WinIdle /\ LiveIdle /\ AppIdle
NextBoth ==
    \/ CallFetch
    \/ RestPageOk
    \/ RestPageFail
    \/ GqlPageOk
    \/ GqlPageFail
    \/ CallWithToken
SpecBoth == InitBoth /\ [][NextBoth]_vars

\* The loop runs on: a request that can be sent is sent, and every request
\* is answered.
InitLive == HIdle /\ LiveInit /\ TrendIdle /\ CmpIdle /\ WinIdle /\ BothIdle
    /\ AppIdle
NextLive ==
    \/ CallFetch
    \/ GqlSendPage
    \/ GqlReceivePage
    \/ GqlReceiveFailure
SpecLive ==
    /\ InitLive
    /\ [][NextLive]_vars
    /\ WF_vars(CallFetch)
    /\ WF_vars(GqlSendPage)
    /\ WF_vars(GqlReceivePage \/ GqlReceiveFailure)

InitTrendSteps == InitTrend
NextTrendSteps ==
    \/ CallCompare
    \/ TermNoToken
    \/ TermSend
    \/ TermReceive
SpecTrendSteps == InitTrendSteps /\ [][NextTrendSteps]_vars

InitApp == HIdle /\ AppInit /\ CmpIdle /\ WinIdle /\ BothIdle /\ LiveIdle
NextApp ==
    \/ Analyze
    \/ HIndexTermSettled
    \/ TrendSettled
    \/ RemoveTag
SpecApp == InitApp /\ [][NextApp]_vars

-----------------------------------------------------------------------------
(* The claims.                                                             *)

\* The number of items of s whose score is at least k.
CountAtLeast(s, prop, k) == Cardinality({i \in 1..Len(s) : s[i][prop] >= k})

\* The H-Index by its definition: the largest k such that at least k items
\* have a score >= k.
HIndexDef(s, prop) ==
    CHOOSE k \in 0..Len(s) :
        /\ CountAtLeast(s, prop, k) >= k
        /\ \A m \in 0..Len(s) : CountAtLeast(s, prop, m) >= m => m <= k

\* h is the H-Index of s: at least h items score >= h, and fewer than h + 1
\* items score >= h + 1 (so no larger k has k items scoring >= k).
IsHIndex(h, s, prop) ==
    /\ CountAtLeast(s, prop, h) >= h
    /\ CountAtLeast(s, prop, h + 1) < h + 1

\* C1: calculateHIndex returns the largest k such that at least k of the
\* items have a score >= k.
C1_HIndexIsDefinition ==
    hOut # <<>> => hOut[1] = HIndexDef(items, hProperty)

\* C1 witness: five items, not in descending order, with H-Index 4.
C1_Witness ==
    /\ hOut = <<4>>
    /\ Len(items) = 5
    /\ items[1][hProperty] < items[5][hProperty]

RestRequestCount == Cardinality({i \in 1..Len(requests) : requests[i].api = "REST"})

\* C2: one call of the REST strategy issues at most 10 page requests.
C2_RestAtMostTenPages == RestRequestCount <= 10

\* C2 witness: a REST call that returned after 10 pages with neither the
\* short-page stop nor the early stop set.
C2_Witness ==
    /\ pc = "returned"
    /\ RestRequestCount = 10
    /\ rest.hasMoreRepos
    /\ ~rest.reachedHIndex

\* C3 as stated: one call of the GraphQL strategy never accumulates more
\* than 500 items.
C3_AtMost500 == Len(gql.allRepos) <= 500

\* C3 as amended: no page is requested once 500 or more items are
\* accumulated, so at most 499 + 100 = 599 items are accumulated.
C3_NoPageAfter500 ==
    /\ Len(gql.allRepos) <= 599
    /\ (pc = "graphql" => Len(gql.allRepos) < 500)

\* C3 witness: a GraphQL call that accumulated 599 items.
C3_Witness == pc = "returned" /\ Len(result.repos) = 599 /\ githubToken

\* C4: the hIndex of every result is the H-Index of the returned item list,
\* and the REST currentHIndex is the H-Index of the accumulated items after
\* every page.
C4_HIndexOfReturnedItems ==
    /\ result # NoResult => IsHIndex(result.hIndex, result.repos, property)
    /\ IsHIndex(rest.currentHIndex, rest.repos, property)

\* C4 witness: a REST call that returned an H-Index above 100 after three
\* pages or more.
C4_Witness ==
    /\ pc = "returned"
    /\ ~githubToken
    /\ rest.page > 3
    /\ result.hIndex > 100

\* C5: every result has hIndex <= totalFetched <= totalItems.
C5_ResultOrdering ==
    result # NoResult =>
        /\ result.hIndex <= result.totalFetched
        /\ result.totalFetched <= result.totalItems

\* C6: the returned H-Index is at most the H-Index of the whole upstream
\* match list: at least hIndex of its items score >= hIndex.
C6_LowerBound ==
    result # NoResult =>
        CountAtLeast(upstream, property, result.hIndex) >= result.hIndex

\* C6 witness: a call that stopped before the end of the match list and
\* returned a positive H-Index.
C6_Witness ==
    /\ result # NoResult
    /\ Len(result.repos) < Len(upstream)
    /\ result.hIndex > 0

\* C9: a response that is not a success is the last request of the call,
\* the call has failed without a result, and all requests of a call go to
\* one transport.
C9_FailFastNoFallback ==
    /\ \A i \in 1..Len(requests) :
          requests[i].outcome # "ok" =>
              i = Len(requests) /\ pc = "failed" /\ result = NoResult
    /\ \A i, j \in 1..Len(requests) : requests[i].api = requests[j].api
    /\ pc = "failed" => result = NoResult

\* C9 witness: a GraphQL call that failed on an errors array on its third
\* page.
C9_Witness ==
    /\ pc = "failed"
    /\ Len(requests) = 3
    /\ requests[3] = [api |-> "GraphQL", outcome |-> "errors"]

\* The response to the request of the i-th term (with a token every term
\* before termIdx has one).
Succeeded(resp) == resp.status = "ok" /\ ~resp.errors

\* C7: every term the loop has passed has an entry: its TrendPoint sequence
\* when its fetch succeeded, an error record when it failed, whatever
\* happened to the terms before and after it; the loop never stops early.
C7_PerTermIndependence ==
    /\ trendPc # "failed"
    /\ trendPc = "returned" => termIdx = Len(searchTerms) + 1
    /\ DOMAIN results = {searchTerms[i] : i \in 1..(termIdx - 1)}
    /\ trendToken =>
          /\ Len(trendLog) = termIdx - 1
          /\ \A i \in 1..Len(trendLog) :
                LET entry == results[searchTerms[i]]
                    resp == trendLog[i].response
                IN  /\ trendLog[i].term = searchTerms[i]
                    /\ IF Succeeded(resp)
                       THEN /\ DOMAIN entry = {"data"}
                            /\ Len(entry.data) = Len(timeWindows)
                            /\ \A w \in 1..Len(timeWindows) :
                                  /\ entry.data[w].startDate = timeWindows[w].start
                                  /\ entry.data[w].endDate = timeWindows[w].end
                       ELSE DOMAIN entry = {"error"}

\* C7 witness: three terms, the first failed, the second and third have
\* their data.
C7_Witness ==
    /\ trendPc = "returned"
    /\ Len(searchTerms) = 3
    /\ Len(timeWindows) > 0
    /\ "error" \in DOMAIN results[searchTerms[1]]
    /\ "data" \in DOMAIN results[searchTerms[2]]
    /\ "data" \in DOMAIN results[searchTerms[3]]

C10_AtomicFailure ==
    \A i \in 1..Len(trendLog) :
        ~Succeeded(trendLog[i].response) =>
            DOMAIN results[trendLog[i].term] = {"error"}

\* C10 witness: a response with an errors array that also holds the counts
\* of the first window.
C10_Witness ==
    \E i \in 1..Len(trendLog) :
        LET resp == trendLog[i].response
        IN  /\ resp.errors
            /\ \E a \in DOMAIN resp.data : resp.data[a] # <<>>
            /\ "error" \in DOMAIN results[trendLog[i].term]


-----------------------------------------------------------------------------
(* processSearchTermForHIndex: the aggregate counts and the merge.         *)

\* The requests of the log that a getTotalCount call sent.
CountRequestsOf(log) == {i \in DOMAIN log : "itemType" \in DOMAIN log[i]}

\* C11: none of the three aggregate-count fetches (repositories, pull
\* requests, discussions) fails the term: the term fails only before any
\* count is requested; in the object returned each count is the upstream
\* count when its answer was ok and 0 when it was a status that is not ok, an
\* errors array or an exception, whatever the other two answers were, and
\* both H-Index values are those of the two ranked fetches; without a token
\* the discussion count is 0 and no request is sent for it.
C11_CountFailureYieldsZero ==
    /\ cmpPc = "failed" =>
          /\ CountRequestsOf(cmpLog) = {}
          /\ \A t \in ItemTypes : counts[t] = NotCalled
    /\ ~githubToken =>
          /\ \A i \in CountRequestsOf(cmpLog) : cmpLog[i].itemType # "discussions"
          /\ cmpPc \in {"counts", "returned"} =>
                counts["discussions"] = Settled(0, "no request")
    /\ cmpPc = "returned" =>
          /\ \A t \in ItemTypes :
                /\ counts[t].st = "done"
                /\ counts[t].value =
                      IF counts[t].outcome = "ok" THEN MatchCount(t) ELSE 0
          /\ cmpResult.totalRepos = counts["repositories"].value
          /\ cmpResult.totalPRs = counts["pull_requests"].value
          /\ cmpResult.totalDiscussions = counts["discussions"].value
          /\ cmpResult.starHIndex = starResult.hIndex
          /\ cmpResult.forkHIndex = forkResult.hIndex

\* The term returned although two of its counts failed: the third count and
\* both H-Index values are in the object returned.
C11_Witness ==
    /\ cmpPc = "returned"
    /\ counts["repositories"].outcome = "http"
    /\ counts["discussions"].outcome = "errors"
    /\ counts["pull_requests"].outcome = "ok"
    /\ cmpResult.totalRepos = 0
    /\ cmpResult.totalDiscussions = 0
    /\ cmpResult.totalPRs > 0
    /\ cmpResult.starHIndex > 0
    /\ cmpResult.forkHIndex > 0

Ids(list) == {list[i].id : i \in DOMAIN list}

\* C12: merging the items of the star pass (A) and of the fork pass (B),
\* which share k ids, gives exactly |A| + |B| - k items, and no id occurs
\* twice among them.
C12_MergedSize ==
    cmpPc \in {"counts", "returned"} =>
        LET A == starResult.repos
            B == forkResult.repos
            k == Cardinality(Ids(A) \cap Ids(B))
        IN  /\ Len(mergedRepos) = Len(A) + Len(B) - k
            /\ Cardinality(Ids(mergedRepos)) = Len(mergedRepos)
            /\ cmpPc = "returned" => cmpResult.analyzedRepos = Len(mergedRepos)

\* The two passes share some ids, and each found ids the other did not.
C12_Witness ==
    /\ cmpPc = "returned"
    /\ Ids(starResult.repos) \cap Ids(forkResult.repos) # {}
    /\ Ids(starResult.repos) \ Ids(forkResult.repos) # {}
    /\ Ids(forkResult.repos) \ Ids(starResult.repos) # {}
    /\ cmpResult.analyzedRepos = Cardinality(Ids(starResult.repos)
                                              \cup Ids(forkResult.repos))

-----------------------------------------------------------------------------
(* generateTimeWindows: the windows emitted, read back as calendar dates.  *)

DigitValue(c) == CHOOSE d \in 0..9 : DigitChars[d + 1] = c

RECURSIVE Number(_)
Number(chars) ==
    IF chars = <<>> THEN 0
    ELSE Number(SubSeq(chars, 1, Len(chars) - 1)) * 10
         + DigitValue(chars[Len(chars)])

\* A date string has the form Y-MM-DD: digits, with a dash before the two
\* month digits and before the two day digits.
IsDateString(str) ==
    LET n == Len(str)
    IN  /\ n >= 7
        /\ str[n - 5] = "-"
        /\ str[n - 2] = "-"
        /\ \A i \in (1..n) \ {n - 5, n - 2} :
              \E d \in 0..9 : DigitChars[d + 1] = str[i]

\* <<year, month, day>> of a date string.
ParseDate(str) ==
    LET n == Len(str)
    IN  <<Number(SubSeq(str, 1, n - 6)), Number(SubSeq(str, n - 4, n - 3)),
          Number(SubSeq(str, n - 1, n))>>

Before(a, b) ==
    \/ a[1] < b[1]
    \/ a[1] = b[1] /\ a[2] < b[2]
    \/ a[1] = b[1] /\ a[2] = b[2] /\ a[3] < b[3]

NotAfter(a, b) == a = b \/ Before(a, b)

\* The calendar: the last day of a month, and the day after a date.
LastDayOfMonth(year, month) ==
    CASE month \in {4, 6, 9, 11} -> 30
      [] month = 2 ->
            IF year % 4 = 0 /\ (year % 100 # 0 \/ year % 400 = 0)
            THEN 29 ELSE 28
      [] OTHER -> 31

DayAfter(date) ==
    IF date[3] < LastDayOfMonth(date[1], date[2])
    THEN <<date[1], date[2], date[3] + 1>>
    ELSE IF date[2] < 12 THEN <<date[1], date[2] + 1, 1>>
         ELSE <<date[1] + 1, 1, 1>>

WindowsCalled == winOut # <<>>

\* The windows returned, each as [start, end] of parsed dates.
Emitted ==
    IF WindowsCalled
    THEN [i \in DOMAIN winOut[1] |->
             [start |-> ParseDate(winOut[1][i].start),
              end   |-> ParseDate(winOut[1][i].end)]]
    ELSE <<>>

\* C13: for every startYear, endYear, granularity and current date, no
\* window of the result contains the current date between its start and its
\* end (both inclusive).
C13_NoWindowContainsToday ==
    \A i \in DOMAIN Emitted :
        ~(NotAfter(Emitted[i].start, today) /\ NotAfter(today, Emitted[i].end))

\* The current year lies within [startYear, endYear], and the rest of the
\* range gave windows.
C13_Witness ==
    /\ WindowsCalled
    /\ startYear <= today[1]
    /\ today[1] <= endYear
    /\ Len(Emitted) > 0

\* C14: every window of the result is a completed period: its end date is
\* strictly before the current date, for every startYear, endYear (also an
\* endYear later than the current year) and granularity.
C14_OnlyCompletedPeriods ==
    \A i \in DOMAIN Emitted : Before(Emitted[i].end, today)

\* C15: the windows of the result are contiguous: each window after the
\* first starts on the calendar day right after the end of the window before
\* it.
C15_Contiguous ==
    \A i \in DOMAIN Emitted :
        i > 1 => Emitted[i].start = DayAfter(Emitted[i - 1].end)

\* C16: the windows of the result are in chronological order and do not
\* overlap: every window has start <= end, and each window starts strictly
\* after the end of the window before it.
C16_OrderedNoOverlap ==
    \A i \in DOMAIN Emitted :
        /\ IsDateString(winOut[1][i].start)
        /\ IsDateString(winOut[1][i].end)
        /\ NotAfter(Emitted[i].start, Emitted[i].end)
        /\ i > 1 => Before(Emitted[i - 1].end, Emitted[i].start)

\* Quarters of more than one year were emitted.
C16_Witness ==
    /\ WindowsCalled
    /\ granularity = "quarter"
    /\ Len(Emitted) > 4
    /\ Emitted[1].start[1] < Emitted[Len(Emitted)].start[1]

\* C17: every month or quarter window starts on day 1 of its first month
\* and ends on the last day of its last month, in one year: a month window
\* covers one month, quarter q covers months 3q-2 to 3q; months 4, 6, 9, 11
\* end on day 30, February on day 29 exactly when the year is divisible by 4
\* and (not divisible by 100 or divisible by 400) and on day 28 otherwise,
\* every other month on day 31.
C17_MonthAndQuarterBounds ==
    granularity \in {"month", "quarter"} =>
        \A i \in DOMAIN Emitted :
            LET w == Emitted[i]
            IN  /\ w.start[3] = 1
                /\ w.start[1] = w.end[1]
                /\ w.end[3] = LastDayOfMonth(w.end[1], w.end[2])
                /\ granularity = "month" =>
                      w.start[2] = w.end[2] /\ w.end[2] \in 1..12
                /\ granularity = "quarter" =>
                      \E q \in 1..4 : /\ w.start[2] = 3 * q - 2
                                      /\ w.end[2] = 3 * q

\* February of 1900 (divisible by 100, not by 400) was emitted with 28 days,
\* and April of 1900 with 30.
C17_Witness ==
    /\ WindowsCalled
    /\ granularity = "month"
    /\ \E i \in DOMAIN Emitted : Emitted[i].end = <<1900, 2, 28>>
    /\ \E i \in DOMAIN Emitted : Emitted[i].end = <<1900, 4, 30>>

\* The number of windows of one whole year.
WindowsPerYear(gran) ==
    CASE gran = "year" -> 1
      [] gran = "quarter" -> 4
      [] gran = "month" -> 12

\* C18: for every year Y of [startYear, endYear] other than the current
\* year the result holds exactly 1 (year), 4 (quarter) or 12 (month) windows
\* lying in Y; it holds no window of a year outside [startYear, endYear]; so
\* it is the empty sequence when startYear > endYear.
C18_WindowsPerYear ==
    WindowsCalled =>
        /\ granularity \in {"year", "quarter", "month"} =>
              \A Y \in startYear..endYear :
                  Y # today[1] =>
                      Cardinality({i \in DOMAIN Emitted :
                                      /\ Emitted[i].start[1] = Y
                                      /\ Emitted[i].end[1] = Y})
                          = WindowsPerYear(granularity)
        /\ \A i \in DOMAIN Emitted :
              /\ Emitted[i].start[1] \in startYear..endYear
              /\ Emitted[i].end[1] \in startYear..endYear
        /\ startYear > endYear => winOut[1] = <<>>

\* Months of a range of three years whose middle year is the current one.
C18_Witness ==
    /\ WindowsCalled
    /\ granularity = "month"
    /\ endYear = startYear + 2
    /\ today[1] = startYear + 1
    /\ Len(Emitted) >= 24

-----------------------------------------------------------------------------
(* calculateHIndex: reordering and range.                                  *)

\* The sequence with the items at positions i and j exchanged; the exchanges
\* of two positions generate every reordering.
Swap(seq, i, j) == [seq EXCEPT ![i] = seq[j], ![j] = seq[i]]

\* C19: calculateHIndex gives the same result for every reordering of the
\* same items (checked for the exchange of any two positions of every
\* input), and the call leaves the order and the content of the sequence
\* passed in as they were.
C19_ReorderingInvariant ==
    [][hOut' # hOut =>
          /\ items' = items
          /\ \A i, j \in DOMAIN items :
                calculateHIndex(Swap(items, i, j), hProperty) = hOut'[1]]_vars

\* The call was made on an input that is not in descending order and has an
\* H-Index of at least 2.
C19_Witness ==
    /\ hOut # <<>>
    /\ hOut[1] >= 2
    /\ \E i \in DOMAIN items :
          i > 1 /\ items[i - 1][hProperty] < items[i][hProperty]

\* C20: for every input the result of calculateHIndex is at least 0 and at
\* most the number of items, and it is 0 for the empty input.
C20_ResultRange ==
    hOut # <<>> =>
        /\ hOut[1] >= 0
        /\ hOut[1] <= Len(items)
        /\ items = <<>> => hOut[1] = 0

\* The result is the number of items, of an input of two items or more.
C20_Witness ==
    /\ hOut # <<>>
    /\ Len(items) >= 2
    /\ hOut[1] = Len(items)

-----------------------------------------------------------------------------
(* The two fetch strategies compared, and their loops.                     *)

\* C21: for the same upstream match set and score field,
\* fetchAndCalculateHIndex returns the same H-Index value with a token (the
\* GraphQL strategy) as without one (the REST strategy).
C21_SameHIndexOnBothPaths ==
    (bothPc = "graphql" /\ pc = "returned") =>
        result.hIndex = restOutcome.hIndex

\* A step of the REST loop that processed a page.
RestPageProcessed ==
    /\ pc = "rest"
    /\ Len(requests') = Len(requests) + 1
    /\ requests'[Len(requests')].outcome = "ok"

\* The four reasons to stop, read from the locals before and after the page.
RestStopA == /\ ~(rest'.currentHIndex > rest.currentHIndex)
             /\ Len(rest'.repos) >= 200

RestStopB ==
    LET h == rest'.currentHIndex
        n == Len(rest'.repos)
    IN  /\ h >= 1
        /\ n >= 2 * h
        /\ rest'.repos[h][property] = h
        /\ (n = rest'.totalItems \/ n >= 3 * h)

RestShortPage == Len(rest'.repos) - Len(rest.repos) < 100

RestTenPages == Len(requests') = 10

\* C22: after processing each page the REST strategy requests another page
\* if and only if none of these holds: (a) the H-Index did not increase on
\* this page and at least 200 items are accumulated; (b) at least
\* 2*currentHIndex items are accumulated, the item at rank currentHIndex
\* has a score equal to currentHIndex, and the accumulated count equals the
\* upstream total or is at least 3*currentHIndex; the page held fewer than
\* 100 items; 10 pages have been requested.
C22_RestContinuesIff ==
    [][RestPageProcessed =>
          (pc' = "rest" <=>
              ~(RestStopA \/ RestStopB \/ RestShortPage \/ RestTenPages))]_vars

\* Page 2 raised the H-Index to 200 with 200 items accumulated, and a third
\* page is going to be requested.
C22_Witness ==
    /\ pc = "rest"
    /\ Len(requests) = 2
    /\ rest.currentHIndex = 200
    /\ Len(rest.repos) = 200

\* A step of the GraphQL loop that processed a page.
GqlPageProcessed ==
    /\ pc = "graphql"
    /\ Len(requests') = Len(requests) + 1
    /\ requests'[Len(requests')].outcome = "ok"

\* C23: after processing each page the GraphQL strategy requests another
\* page if and only if the cursor reports a next page, the accumulated count
\* is below 500, and the accumulated count is not both at least
\* 3*currentHIndex and at least 100.
C23_GqlContinuesIff ==
    [][GqlPageProcessed =>
          LET n == Len(gql'.allRepos)
              currentHIndex == calculateHIndex(gql'.allRepos, property)
          IN  pc' = "graphql" <=>
                  /\ gql'.hasNextPage
                  /\ n < 500
                  /\ ~(n >= 3 * currentHIndex /\ n >= 100)]_vars

\* 200 items with an H-Index of 200 are accumulated after two pages, and a
\* third page is going to be requested.
C23_Witness ==
    /\ pc = "graphql"
    /\ Len(requests) = 2
    /\ Len(gql.allRepos) = 200
    /\ calculateHIndex(gql.allRepos, property) = 200

SortedDescending(list, prop) ==
    \A i \in 1..(Len(list) - 1) : list[i][prop] >= list[i + 1][prop]

\* The REST call returned because of early stop (a) or (b) or because of a
\* short page (not because page 10 was passed), on an upstream list that is
\* in descending order of the score field.
RestStoppedOnSortedUpstream ==
    /\ pc = "returned"
    /\ ~githubToken
    /\ SortedDescending(upstream, property)
    /\ (rest.reachedHIndex \/ ~rest.hasMoreRepos)

\* C24 as stated: when the upstream delivers items in descending order of
\* the score field and the REST strategy stops before the 10-page cap (by
\* early stop (a) or (b), or by a short page), the returned H-Index is the
\* H-Index of the entire upstream match set.
C24_ExactOnSortedUpstream ==
    RestStoppedOnSortedUpstream => IsHIndex(result.hIndex, upstream, property)

\* C24, amended: the same, when the stop is early stop (a) or (b), or a short
\* page that holds the last items of the match set; ties at the boundary
\* score included.
C24_ExactUnlessShortPageMidList ==
    (/\ RestStoppedOnSortedUpstream
     /\ (rest.reachedHIndex \/ Len(rest.repos) = Len(upstream)))
        => IsHIndex(result.hIndex, upstream, property)

\* Early stop (b) ended the call before the end of the match set while items
\* beyond rank hIndex tie with the item at rank hIndex.
C24_Witness ==
    /\ RestStoppedOnSortedUpstream
    /\ rest.reachedHIndex
    /\ Len(rest.repos) < Len(upstream)
    /\ result.hIndex >= 1
    /\ rest.repos[result.hIndex][property] = result.hIndex
    /\ rest.repos[result.hIndex + 1][property] = result.hIndex

\* C25: every call of the GraphQL ranked fetch terminates: whatever the
\* upstream answers, pages that report hasNextPage = true with fewer than
\* 100 nodes or none included, the call returns or fails in the end.
C25_GqlCallTerminates == <>(pc \in {"returned", "failed"})

-----------------------------------------------------------------------------
(* compareSearchTerms: one term at a time.                                 *)

\* C26: compareSearchTerms issues its upstream requests one term at a time
\* in input order: the requests issued so far are those of the first terms
\* of the input, one each; every term but the one requested last has its
\* entry (data or error) recorded; and at no time are two requests in
\* flight.
C26_OneTermAtATime ==
    /\ Len(awaited) <= 1
    /\ Len(trendLog) <= Len(searchTerms)
    /\ \A i \in 1..Len(trendLog) :
          /\ trendLog[i].term = searchTerms[i]
          /\ (i < Len(trendLog) \/ awaited = <<>>) =>
                searchTerms[i] \in DOMAIN results
          /\ searchTerms[i] \in DOMAIN results =>
                DOMAIN results[searchTerms[i]] \in {{"data"}, {"error"}}

\* The request of the third term is in flight; the first term has an error
\* recorded and the second its data.
C26_Witness ==
    /\ Len(trendLog) = 3
    /\ awaited = <<searchTerms[3]>>
    /\ DOMAIN results = {searchTerms[1], searchTerms[2]}
    /\ "error" \in DOMAIN results[searchTerms[1]]
    /\ "data" \in DOMAIN results[searchTerms[2]]

-----------------------------------------------------------------------------
(* processSearchTermForHIndex: a ranked fetch that fails.                  *)

\* Every request of the call so far, in the order sent.
CmpRequests == cmpLog \o requests

\* C27: when the star or the fork ranked fetch of a term fails, the
\* comparison of that term fails: no result object is produced and the
\* failed request is the last request of the call; the fork fetch begins
\* only after the star fetch has returned, and the count requests are sent
\* only after both ranked fetches have returned.
C27_RankedFailureFailsTerm ==
    /\ property = "forks_count" => starResult # NoResult
    /\ CountRequestsOf(CmpRequests) # {} =>
          starResult # NoResult /\ forkResult # NoResult
    /\ \A i \in DOMAIN CmpRequests \ CountRequestsOf(CmpRequests) :
          CmpRequests[i].outcome # "ok" =>
             /\ i = Len(CmpRequests)
             /\ pc = "failed"
             /\ cmpPc # "returned"
             /\ cmpResult = NoResult
             /\ forkResult = NoResult
             /\ property = "stargazers_count" => starResult = NoResult
    /\ cmpPc = "failed" =>
          /\ cmpResult = NoResult
          /\ Len(cmpLog) >= 1
          /\ cmpLog[Len(cmpLog)].outcome # "ok"

\* The fork fetch failed after the star fetch had returned.
C27_Witness ==
    /\ cmpPc = "failed"
    /\ property = "forks_count"
    /\ starResult # NoResult
    /\ starResult.hIndex > 0
    /\ Len(cmpLog) >= 3
    /\ cmpLog[Len(cmpLog)].outcome = "http"
    /\ cmpLog[Len(cmpLog) - 1].outcome = "ok"
    /\ cmpResult = NoResult

-----------------------------------------------------------------------------
(* fetchTimeSeries: one batched request per term.                          *)

\* What a request for the single window w of the term returns when it
\* succeeds: the one point of the one-window query.
SingleWindowPoint(term, w, m) ==
    processTimeSeriesData(FullData(term, <<w>>, m), <<w>>, m)[1]

\* C28: fetchTimeSeries sends exactly one request per term whatever the
\* number of windows; the aliases of its query are unique across windows;
\* on success the series has one point per input window, in input order,
\* with the start and end of that window and the counts the response holds
\* under that window's own aliases: the points that one request per window
\* would return.
C28_OneRequestPerTermDemultiplexed ==
    /\ trendToken => Len(trendLog) = termIdx - 1
    /\ \A i \in 1..Len(trendLog) :
          LET entry == trendLog[i]
              data == entry.response.data
          IN  /\ entry.term = searchTerms[i]
              /\ \A j \in 1..Len(trendLog) : trendLog[j].term = entry.term => j = i
              /\ Cardinality(entry.aliases) =
                    Len(timeWindows) * Cardinality(Suffixes(metric))
              /\ "data" \in DOMAIN results[entry.term] =>
                    LET series == results[entry.term].data
                    IN  /\ Len(series) = Len(timeWindows)
                        /\ \A k \in 1..Len(timeWindows) :
                              /\ series[k].startDate = timeWindows[k].start
                              /\ series[k].endDate = timeWindows[k].end
                              /\ series[k].repositoryCount =
                                    data[Alias(k - 1, "")][1]
                              /\ "_prs" \in Suffixes(metric) =>
                                    series[k].prCount =
                                       data[Alias(k - 1, "_prs")][1]
                              /\ "_issues" \in Suffixes(metric) =>
                                    series[k].issueCount =
                                       data[Alias(k - 1, "_issues")][1]
                              /\ series[k] =
                                    SingleWindowPoint(entry.term,
                                                      timeWindows[k], metric)

\* Two terms were fetched for two windows and all three counts, one request
\* each, and both series came back.
C28_Witness ==
    /\ Len(timeWindows) = 2
    /\ metric = "all"
    /\ Len(trendLog) = 2
    /\ termIdx = 3
    /\ \A i \in 1..2 :
          /\ "data" \in DOMAIN results[searchTerms[i]]
          /\ Len(results[searchTerms[i]].data) = 2
          /\ results[searchTerms[i]].data[1].prCount #
                results[searchTerms[i]].data[2].prCount

-----------------------------------------------------------------------------
(* handleSearch: what the component holds when requests fail or overlap.   *)

TermSet(terms) == {terms[i] : i \in DOMAIN terms}

\* The terms of a trend result whose entry is an error marker.
TrendFailed(data) == {t \in DOMAIN data : "error" \in DOMAIN data[t]}

\* C29: in a request for several terms, H-Index comparison or trend, every
\* term that failed is in the output as an error marker and every term that
\* succeeded is in it with its data, so no requested term is absent; a
\* failure of a request for one term sets the one error of the operation.
\* Stated for a request that ran alone and has finished.
C29_EveryTermRepresented ==
    (Len(calls) = 1 /\ calls[1].pc = "done") =>
        LET call == calls[1]
            terms == TermSet(call.searchTerms)
            shown == {multiHIndexResults[k].searchTerm :
                         k \in DOMAIN multiHIndexResults}
        IN  /\ (Len(call.searchTerms) > 1 /\ call.showHIndexAnalysis) =>
                  /\ shown = terms
                  /\ \A k \in DOMAIN multiHIndexResults :
                        multiHIndexResults[k].searchTerm \in call.failed <=>
                           "error" \in DOMAIN multiHIndexResults[k]
            /\ (Len(call.searchTerms) > 1 /\ call.data # NoResult) =>
                  /\ chartData = call.data
                  /\ DOMAIN chartData = terms
                  /\ \A t \in terms :
                        DOMAIN chartData[t] \in {{"data"}, {"error"}}
            /\ (Len(call.searchTerms) = 1 /\ call.failed # {}) =>
                  error # NoResult
            /\ (Len(call.searchTerms) = 1 /\ call.data # NoResult
                   /\ TrendFailed(call.data) # {}) =>
                  error # NoResult

\* C30: when a request is started while an earlier one is still awaiting,
\* the trend series held for display once all have finished is the series
\* of the request started last.
C30_LatestRequestWins ==
    (/\ Len(calls) >= 2
     /\ \A c \in DOMAIN calls : calls[c].pc = "done"
     /\ calls[Len(calls)].data # NoResult) =>
        chartData = calls[Len(calls)].data

=============================================================================
